---- MODULE Spec2Model ----
(***************************************************************************)
(* GRCnewsAssistant.py: keyword search -> article persistence -> content   *)
(* extraction -> external analysis -> rated dataset.                       *)
(*                                                                         *)
(* Python values are modelled as follows.  None and the empty string are   *)
(* both the empty string "" in an Article (both are falsy for              *)
(* article.get(key), and csv.writer writes both as an empty field).  A key *)
(* that a JSON object lacks is the marker Missing.  A file is a record     *)
(* [exists, rows]; a row is a tuple of field strings.  An absent content   *)
(* or analysis (Python None) is the record None.                           *)
(***************************************************************************)
EXTENDS Integers, Sequences, FiniteSets, TLC

VARIABLES
    pc,                \* position of main(), or "store" for the store-level runs
    keywords,          \* main: keywords
    kwIdx,             \* main: index of the keyword of the for loop (1-based)
    response,          \* reply of the news service to the last search_news call
    articles,          \* main: articles (what the last search_news returned)
    all_articles,      \* main: all_articles
    artIdx,            \* main: index of the article of the per-article loop
    content,           \* main: content (what extract_article_content returned)
    analysis_results,  \* main: analysis_results
    csvFile,           \* grcdata.csv
    urlsFile,          \* urls.csv
    ratedFile,         \* grcdata_rated.csv
    tempFiles,         \* files made by tempfile.NamedTemporaryFile(delete=False) that exist
    writable,          \* whether the working directory accepts writes (open(..., 'w'/'a'))
    lastCall,          \* store-level runs: the last save_to_csv / save_urls call
    repeated,          \* store-level runs: the last call repeated the call before it
    nCalls             \* store-level runs: number of calls made

vars == <<pc, keywords, kwIdx, response, articles, all_articles, artIdx, content,
          analysis_results, csvFile, urlsFile, ratedFile, tempFiles, writable,
          lastCall, repeated, nCalls>>

(* ------------------------------ bounds -------------------------------- *)
MaxKeywords == 2
MaxResults == 2
MaxArticles == 2
MaxCalls == 2
MaxStoreArticles == 2

(* ------------------------------ values -------------------------------- *)
None == [type |-> "none"]
Missing == "<missing>"
Today == "2026-11-03"

KeywordList == <<"ransomware", "grc", "audit", "privacy">>

SeqUpTo(S, n) == UNION {[1..k -> S] : k \in 0..n}

Min(a, b) == IF a < b THEN a ELSE b

\* Python truthiness of a string-or-None field.
Truthy(v) == v # ""

\* Result items of the news service: {title, description, link}.
ItemGood == [title |-> "X", description |-> "Y", link |-> "http://u"]
ItemNullDescription == [title |-> "X2", description |-> "", link |-> "http://v"]
ItemNullLink == [title |-> "X3", description |-> "Y3", link |-> ""]
ItemNoTitle == [title |-> Missing, description |-> "Y4", link |-> "http://w"]
Items == {ItemGood, ItemNullDescription, ItemNullLink, ItemNoTitle}

Responses ==
    {[kind |-> "exception"]}
    \cup {[kind |-> "json", status |-> "error", results |-> <<>>]}
    \cup {[kind |-> "json", status |-> "success", results |-> r] :
              r \in SeqUpTo(Items, MaxResults)}

NoResponse == [kind |-> "none"]

(* ------------------------------ files --------------------------------- *)
NoFile == [exists |-> FALSE, rows |-> <<>>]

CsvHeader == <<"date", "keyword", "title", "description", "url">>

RatedHeader == <<"date", "keyword", "title", "description", "url",
                 "one-sentence-summary", "labels", "rating",
                 "rating-explanation", "quality-score", "quality-score-explanation">>

\* Content left by an earlier run.
PriorCsv == [exists |-> TRUE,
             rows |-> <<CsvHeader, <<"2026-11-02", "old", "O", "P", "http://old">> >>]
PriorUrls == [exists |-> TRUE, rows |-> << <<"http://old">> >>]
PriorRated == [exists |-> TRUE,
               rows |-> <<RatedHeader,
                          <<"2026-11-02", "old", "O", "P", "http://old",
                            "", "", "", "", "", "">> >>]

(* --------------------------- read_keywords ---------------------------- *)
\* The rows of keywords.csv are the first n entries of KeywordList; an
\* unreadable file gives [].
read_keywords(n, readable) ==
    IF readable THEN SubSeq(KeywordList, 1, n) ELSE <<>>

(* ---------------------------- search_news ----------------------------- *)
ItemHasKeys(item) ==
    /\ item.title # Missing
    /\ item.description # Missing
    /\ item.link # Missing

MakeArticle(keyword, item) ==
    [date |-> Today, keyword |-> keyword, headline |-> item.title,
     description |-> item.description, url |-> item.link]

\* article["title"] on an item that lacks the key raises KeyError inside the
\* try block: the except branch returns [] for the whole response.
search_news_raises(resp) ==
    \/ resp.kind = "exception"
    \/ /\ resp.kind = "json"
       /\ resp.status = "success"
       /\ \E i \in 1..Len(resp.results) : ~ItemHasKeys(resp.results[i])

search_news(keyword, resp) ==
    IF search_news_raises(resp) THEN <<>>
    ELSE IF resp.status = "success"
         THEN [i \in 1..Len(resp.results) |-> MakeArticle(keyword, resp.results[i])]
         ELSE <<>>

(* ---------------------------- save_to_csv ----------------------------- *)
\* all(article.get(key) for key in [...])
AllFields(article) ==
    /\ Truthy(article.date)
    /\ Truthy(article.keyword)
    /\ Truthy(article.headline)
    /\ Truthy(article.description)
    /\ Truthy(article.url)

CsvRow(article) ==
    <<article.date, article.keyword, article.headline, article.description,
      article.url>>

RECURSIVE AppendValid(_, _, _)
AppendValid(rows, arts, i) ==
    IF i > Len(arts) THEN rows
    ELSE IF AllFields(arts[i])
         THEN AppendValid(Append(rows, CsvRow(arts[i])), arts, i + 1)
         ELSE AppendValid(rows, arts, i + 1)

\* save_to_csv with a fault: the header is written on every call.
save_to_csv_header_each_call(file, arts, canWrite) ==
    IF ~canWrite THEN file
    ELSE [exists |-> TRUE, rows |-> AppendValid(Append(file.rows, CsvHeader), arts, 1)]

\* canWrite = FALSE: open() raises, the except branch logs, the file is as before.
save_to_csv(file, arts, canWrite) ==
    IF ~canWrite THEN file
    ELSE LET withHeader == IF file.exists THEN file.rows ELSE <<CsvHeader>>
         IN [exists |-> TRUE, rows |-> AppendValid(withHeader, arts, 1)]

(* ----------------------------- save_urls ------------------------------ *)
RECURSIVE AppendUrls(_, _, _)
AppendUrls(rows, arts, i) ==
    IF i > Len(arts) THEN rows
    ELSE IF Truthy(arts[i].url)
         THEN AppendUrls(Append(rows, <<arts[i].url>>), arts, i + 1)
         ELSE AppendUrls(rows, arts, i + 1)

\* save_urls with a fault: the file is opened in append mode.
save_urls_append_mode(file, arts, canWrite) ==
    IF ~canWrite THEN file
    ELSE [exists |-> TRUE, rows |-> AppendUrls(file.rows, arts, 1)]

save_urls(file, arts, canWrite) ==
    IF ~canWrite THEN file
    ELSE [exists |-> TRUE, rows |-> AppendUrls(<<>>, arts, 1)]

(* ----------------------- extract_article_content --------------------- *)
\* What newspaper's download/parse/nlp found on a page: "" or <<>> where it
\* found nothing; publish_date is the date-time already in ISO-8601 form.
Page == [title |-> "T", keywords |-> <<"k">>, authors |-> <<>>,
         summary |-> "S", text |-> "body", publish_date |-> ""]
Pages == {Page}

OrNotFound(v) == IF Truthy(v) THEN v ELSE "Not Found"

\* fetched = FALSE: download/parse/nlp raised; the except branch returns None.
extract_article_content(url, page, fetched) ==
    IF ~fetched THEN None
    ELSE [type |-> "content",
          title |-> OrNotFound(page.title),
          keywords |-> page.keywords,
          authors |-> IF page.authors # <<>> THEN page.authors ELSE <<"Not Found">>,
          summary |-> OrNotFound(page.summary),
          text |-> OrNotFound(page.text),
          publish_date |-> OrNotFound(page.publish_date),
          url |-> url]

(* ------------------------- analyze_with_fabric ------------------------ *)
\* What json.loads can return for the tool's output file: the documented
\* mapping, a mapping that lacks some keys, or another JSON value (an array).
\* The mapping's values are kept by kind: items (strings), lists (lists of
\* strings), score (a number).  DictAnalysis lacks the key "labels".
DictAnalysis ==
    [type |-> "dict",
     items |-> [k \in {"one-sentence-summary", "rating"} |-> "s"],
     lists |-> [k \in {"rating-explanation", "quality-score-explanation"} |-> <<"a", "b">>],
     score |-> [k \in {"quality-score"} |-> 85]]
ListAnalysis == [type |-> "list"]
FabricOutputs == {DictAnalysis, ListAnalysis}

\* How far one call gets.  copy_fail: pbcopy/clip is missing or fails.
\* exit: get_clipboard_command finds no xclip, or an unsupported system, and
\* calls sys.exit(1).  run_fail, timeout: the fabric command fails or exceeds
\* 15 s.  parse_fail: the output file is not JSON.  ok: all steps pass.
AnalyzeOutcomes == {"copy_fail", "exit", "run_fail", "timeout", "parse_fail", "ok"}

TempIn(id) == <<id, ".txt">>
TempOut(id) == <<id, ".md">>

\* The temporary files of call id that exist when the call is left.
analyze_leftover(id, outcome) ==
    CASE outcome = "copy_fail" -> {TempIn(id)}
      [] outcome \in {"exit", "run_fail", "timeout", "parse_fail"} -> {TempIn(id), TempOut(id)}
      [] outcome = "ok" -> {}

\* The value returned to main (for every outcome but exit, which returns nothing).
analyze_with_fabric(outcome, output) ==
    IF outcome = "ok" THEN output ELSE None

(* -------------------------- create_rated_csv -------------------------- *)
\* if analysis:
AnalysisTruthy(analysis) ==
    \/ analysis.type = "list"
    \/ /\ analysis.type = "dict"
       /\ (DOMAIN analysis.items) \cup (DOMAIN analysis.lists) \cup (DOMAIN analysis.score) # {}

\* analysis.get(...) on a value that is no mapping raises AttributeError.
RowRaises(analysis) == analysis.type # "dict"

Get(f, k, default) == IF k \in DOMAIN f THEN f[k] ELSE default

RECURSIVE Join(_, _)
Join(sep, list) ==
    IF list = <<>> THEN ""
    ELSE IF Len(list) = 1 THEN list[1]
    ELSE list[1] \o sep \o Join(sep, Tail(list))

Digits == <<"0", "1", "2", "3", "4", "5", "6", "7", "8", "9">>

RECURSIVE Str(_)
Str(n) == IF n < 10 THEN Digits[n + 1] ELSE Str(n \div 10) \o Digits[(n % 10) + 1]

AnalysedRow(article, analysis) ==
    <<article.date, article.keyword, article.headline, article.description, article.url,
      Get(analysis.items, "one-sentence-summary", ""),
      Get(analysis.items, "labels", ""),
      Get(analysis.items, "rating", ""),
      Join("; ", Get(analysis.lists, "rating-explanation", <<>>)),
      IF "quality-score" \in DOMAIN analysis.score
          THEN Str(analysis.score["quality-score"]) ELSE "",
      Join("; ", Get(analysis.lists, "quality-score-explanation", <<>>))>>

BareRow(article) ==
    <<article.date, article.keyword, article.headline, article.description, article.url,
      "", "", "", "", "", "">>

\* The for loop over zip(articles, analysis_results): the rows written until
\* the loop ends or a row raises.
RECURSIVE WriteRated(_, _, _, _)
WriteRated(rows, arts, analyses, i) ==
    IF i > Min(Len(arts), Len(analyses)) THEN [rows |-> rows, raised |-> FALSE]
    ELSE IF Truthy(arts[i].url)
         THEN IF AnalysisTruthy(analyses[i])
              THEN IF RowRaises(analyses[i])
                   THEN [rows |-> rows, raised |-> TRUE]
                   ELSE WriteRated(Append(rows, AnalysedRow(arts[i], analyses[i])),
                                   arts, analyses, i + 1)
              ELSE WriteRated(Append(rows, BareRow(arts[i])), arts, analyses, i + 1)
         ELSE WriteRated(rows, arts, analyses, i + 1)

\* canWrite = FALSE: open() raises and the file is as before.  Otherwise the
\* file is truncated, the header written, and the rows up to the first one
\* that raises are kept (the with block closes the file).
create_rated_csv(file, arts, analyses, canWrite) ==
    IF ~canWrite THEN file
    ELSE [exists |-> TRUE, rows |-> WriteRated(<<RatedHeader>>, arts, analyses, 1).rows]

(* -------------------------------- main -------------------------------- *)
Fresh == <<NoFile, NoFile, NoFile>>
Prior == <<PriorCsv, PriorUrls, PriorRated>>

NoCall == [op |-> "none", articles |-> <<>>]

Init ==
    /\ pc = "get_api_key"
    /\ keywords = <<>>
    /\ kwIdx = 0
    /\ response = NoResponse
    /\ articles = <<>>
    /\ all_articles = <<>>
    /\ artIdx = 0
    /\ content = None
    /\ analysis_results = <<>>
    /\ \E prior \in {Fresh, Prior} :
          /\ csvFile = prior[1]
          /\ urlsFile = prior[2]
          /\ ratedFile = prior[3]
    /\ tempFiles = {}
    /\ writable \in BOOLEAN
    /\ lastCall = NoCall
    /\ repeated = FALSE
    /\ nCalls = 0

mainLocals == <<keywords, kwIdx, response, articles, all_articles, artIdx, content,
                analysis_results>>
files == <<csvFile, urlsFile, ratedFile, tempFiles>>
storeVars == <<lastCall, repeated, nCalls>>

\* api_key = get_api_key(): sys.exit(1) when NEWSDATA_API_KEY is not set.
MainGetApiKey ==
    /\ pc = "get_api_key"
    /\ \E present \in BOOLEAN :
          pc' = IF present THEN "read_keywords" ELSE "exit"
    /\ UNCHANGED <<mainLocals, files, writable, storeVars>>

\* keywords = read_keywords(); if not keywords: return
MainReadKeywords ==
    /\ pc = "read_keywords"
    /\ \E n \in 0..MaxKeywords, readable \in BOOLEAN :
          /\ keywords' = read_keywords(n, readable)
          /\ IF keywords' = <<>>
             THEN pc' = "done" /\ kwIdx' = kwIdx
             ELSE pc' = "search_news" /\ kwIdx' = 1
    /\ UNCHANGED <<response, articles, all_articles, artIdx, content, analysis_results,
                   files, writable, storeVars>>

\* articles = search_news(keyword.strip(), api_key); the keywords of
\* KeywordList carry no surrounding blanks, so strip() returns them as they are.
MainSearch ==
    /\ pc = "search_news"
    /\ \E resp \in Responses :
          /\ Len(all_articles) + Len(search_news(keywords[kwIdx], resp)) <= MaxArticles
          /\ response' = resp
          /\ articles' = search_news(keywords[kwIdx], resp)
    /\ pc' = "collect"
    /\ UNCHANGED <<keywords, kwIdx, all_articles, artIdx, content, analysis_results,
                   files, writable, storeVars>>

\* MainCollect with a fault: a keyword without articles ends the keyword loop.
MainCollect_stop_at_empty ==
    /\ pc = "collect"
    /\ all_articles' = IF articles # <<>> THEN all_articles \o articles ELSE all_articles
    /\ kwIdx' = IF articles # <<>> THEN kwIdx + 1 ELSE kwIdx
    /\ response' = NoResponse
    /\ articles' = <<>>
    /\ pc' = IF kwIdx < Len(keywords) /\ articles # <<>> THEN "search_news"
             ELSE IF all_articles' = <<>> THEN "done"
             ELSE "save_to_csv"
    /\ UNCHANGED <<keywords, artIdx, content, analysis_results, files, writable,
                   storeVars>>

\* if articles: all_articles.extend(articles); then the next keyword, or after
\* the last one: if not all_articles: return.  response and articles are not
\* read again once the loop has moved on.
MainCollect ==
    /\ pc = "collect"
    /\ all_articles' = IF articles # <<>> THEN all_articles \o articles ELSE all_articles
    /\ kwIdx' = kwIdx + 1
    /\ response' = NoResponse
    /\ articles' = <<>>
    /\ pc' = IF kwIdx < Len(keywords) THEN "search_news"
             ELSE IF all_articles' = <<>> THEN "done"
             ELSE "save_to_csv"
    /\ UNCHANGED <<keywords, artIdx, content, analysis_results, files, writable,
                   storeVars>>

\* save_to_csv(all_articles)
MainSaveToCsv ==
    /\ pc = "save_to_csv"
    /\ csvFile' = save_to_csv(csvFile, all_articles, writable)
    /\ pc' = "save_urls"
    /\ UNCHANGED <<mainLocals, urlsFile, ratedFile, tempFiles, writable, storeVars>>

\* save_urls(all_articles); analysis_results = []
MainSaveUrls ==
    /\ pc = "save_urls"
    /\ urlsFile' = save_urls(urlsFile, all_articles, writable)
    /\ pc' = "extract"
    /\ artIdx' = 1
    /\ analysis_results' = <<>>
    /\ UNCHANGED <<keywords, kwIdx, response, articles, all_articles, content,
                   csvFile, ratedFile, tempFiles, writable, storeVars>>

\* Where the per-article loop goes after the article at artIdx.
NextArticlePc == IF artIdx < Len(all_articles) THEN "extract" ELSE "create_rated_csv"

\* MainExtract with a fault: no entry is appended when extraction fails.
MainExtract_no_entry_on_failure ==
    /\ pc = "extract"
    /\ \E page \in Pages, fetched \in BOOLEAN :
          LET c == extract_article_content(all_articles[artIdx].url, page, fetched) IN
          IF c.type = "content"
          THEN /\ content' = c
               /\ pc' = "analyze"
               /\ UNCHANGED <<analysis_results, artIdx>>
          ELSE /\ content' = None
               /\ analysis_results' = analysis_results
               /\ artIdx' = artIdx + 1
               /\ pc' = NextArticlePc
    /\ UNCHANGED <<keywords, kwIdx, response, articles, all_articles, files, writable,
                   storeVars>>

\* content = extract_article_content(url); if content: ... else:
\* analysis_results.append(None)
MainExtract ==
    /\ pc = "extract"
    /\ \E page \in Pages, fetched \in BOOLEAN :
          LET c == extract_article_content(all_articles[artIdx].url, page, fetched) IN
          IF c.type = "content"
          THEN /\ content' = c
               /\ pc' = "analyze"
               /\ UNCHANGED <<analysis_results, artIdx>>
          ELSE /\ content' = None
               /\ analysis_results' = Append(analysis_results, None)
               /\ artIdx' = artIdx + 1
               /\ pc' = NextArticlePc
    /\ UNCHANGED <<keywords, kwIdx, response, articles, all_articles, files, writable,
                   storeVars>>

\* analysis = analyze_with_fabric(content); analysis_results.append(analysis).
\* SystemExit (raised by sys.exit in get_clipboard_command) is no Exception:
\* it passes the except clause of analyze_with_fabric and ends main.
MainAnalyze ==
    /\ pc = "analyze"
    /\ \E outcome \in AnalyzeOutcomes, output \in FabricOutputs :
          /\ tempFiles' = tempFiles \cup analyze_leftover(artIdx, outcome)
          /\ IF outcome = "exit"
             THEN /\ pc' = "exit"
                  /\ UNCHANGED <<analysis_results, artIdx, content>>
             ELSE /\ analysis_results' =
                        Append(analysis_results, analyze_with_fabric(outcome, output))
                  /\ artIdx' = artIdx + 1
                  /\ content' = None
                  /\ pc' = NextArticlePc
    /\ UNCHANGED <<keywords, kwIdx, response, articles, all_articles,
                   csvFile, urlsFile, ratedFile, writable, storeVars>>

\* create_rated_csv(all_articles, analysis_results)
MainCreateRated ==
    /\ pc = "create_rated_csv"
    /\ ratedFile' = create_rated_csv(ratedFile, all_articles, analysis_results, writable)
    /\ pc' = "done"
    /\ UNCHANGED <<mainLocals, csvFile, urlsFile, tempFiles, writable, storeVars>>

Next ==
    \/ MainGetApiKey
    \/ MainReadKeywords
    \/ MainSearch
    \/ MainCollect
    \/ MainSaveToCsv
    \/ MainSaveUrls
    \/ MainExtract
    \/ MainAnalyze
    \/ MainCreateRated

Spec == Init /\ [][Next]_vars

(* ------------------- successive calls of the store -------------------- *)
\* The Articles the calls are given: two valid ones and two invalid ones.
StoreArticles ==
    {MakeArticle("ransomware", ItemGood), MakeArticle("grc", ItemGood),
     MakeArticle("grc", ItemNullDescription), MakeArticle("grc", ItemNullLink)}

InitStore ==
    /\ pc = "store"
    /\ keywords = <<>>
    /\ kwIdx = 0
    /\ response = NoResponse
    /\ articles = <<>>
    /\ all_articles = <<>>
    /\ artIdx = 0
    /\ content = None
    /\ analysis_results = <<>>
    /\ csvFile = NoFile
    /\ urlsFile \in {NoFile, PriorUrls}
    /\ ratedFile = NoFile
    /\ tempFiles = {}
    /\ writable = TRUE
    /\ lastCall = NoCall
    /\ repeated = FALSE
    /\ nCalls = 0

\* One call save_to_csv(arts); the directory may have become (un)writable
\* since the call before.
StoreSaveToCsv ==
    /\ pc = "store"
    /\ nCalls < MaxCalls
    /\ \E arts \in SeqUpTo(StoreArticles, MaxStoreArticles), w \in BOOLEAN :
          /\ writable' = w
          /\ csvFile' = save_to_csv(csvFile, arts, w)
          /\ lastCall' = [op |-> "save_to_csv", articles |-> arts]
          /\ repeated' = (lastCall = lastCall' /\ writable /\ w)
    /\ nCalls' = nCalls + 1
    /\ UNCHANGED <<pc, mainLocals, urlsFile, ratedFile, tempFiles>>

\* One call save_urls(arts).
StoreSaveUrls ==
    /\ pc = "store"
    /\ nCalls < MaxCalls
    /\ \E arts \in SeqUpTo(StoreArticles, MaxStoreArticles), w \in BOOLEAN :
          /\ writable' = w
          /\ urlsFile' = save_urls(urlsFile, arts, w)
          /\ lastCall' = [op |-> "save_urls", articles |-> arts]
          /\ repeated' = (lastCall = lastCall' /\ writable /\ w)
    /\ nCalls' = nCalls + 1
    /\ UNCHANGED <<pc, mainLocals, csvFile, ratedFile, tempFiles>>

NextStore ==
    \/ StoreSaveToCsv
    \/ StoreSaveUrls

SpecStore == InitStore /\ [][NextStore]_vars

(* ============================== claims ================================ *)
\* An Article is valid when none of its five required fields is empty.
ValidArticle(a) ==
    a.date # "" /\ a.keyword # "" /\ a.headline # "" /\ a.description # "" /\ a.url # ""

Range(f) == {f[i] : i \in DOMAIN f}

ArticleFields(a) == <<a.date, a.keyword, a.headline, a.description, a.url>>

\* The first five fields of a rated row.
Head5(row) == SubSeq(row, 1, 5)

\* The rated records of the rated dataset (its rows after the header).
RatedRecords == IF ratedFile.exists THEN Tail(ratedFile.rows) ELSE <<>>

RECURSIVE IsSubseq(_, _)
IsSubseq(s, t) ==
    IF s = <<>> THEN TRUE
    ELSE IF t = <<>> THEN FALSE
    ELSE IF Head(s) = Head(t) THEN IsSubseq(Tail(s), Tail(t))
    ELSE IsSubseq(s, Tail(t))

IsPrefix(s, t) == Len(s) <= Len(t) /\ SubSeq(t, 1, Len(s)) = s

AfterSaves == {"extract", "analyze", "create_rated_csv", "done", "exit"}

\* No analysis of the run makes a row of create_rated_csv raise.
NoRowRaises ==
    \A i \in DOMAIN analysis_results :
        ~(AnalysisTruthy(analysis_results[i]) /\ RowRaises(analysis_results[i]))

\* C1: once save_to_csv and save_urls have run, an Article with an empty
\* required field has no row in the article dataset and no row in the URL
\* list, and it still has its slot in the list paired with the analyses.
C1_ValidityFilter ==
    (pc \in AfterSaves /\ all_articles # <<>>) =>
        /\ \A i \in DOMAIN all_articles :
              ~ValidArticle(all_articles[i]) =>
                  /\ ArticleFields(all_articles[i]) \notin Range(csvFile.rows)
                  /\ <<all_articles[i].url>> \notin Range(urlsFile.rows)
        /\ (pc = "create_rated_csv" => Len(analysis_results) = Len(all_articles))

\* C2: when create_rated_csv has written the rated dataset, the number of
\* rated records is at most the number of Articles, equals it exactly when no
\* Article is invalid, an invalid Article has no record, and the records are
\* in the order of their Articles.
C2_JoinCorrectness ==
    (pc = "done" /\ all_articles # <<>> /\ writable /\ NoRowRaises) =>
        /\ Len(RatedRecords) <= Len(all_articles)
        /\ (Len(RatedRecords) = Len(all_articles)
               <=> \A i \in DOMAIN all_articles : ValidArticle(all_articles[i]))
        /\ \A i \in DOMAIN all_articles :
              ~ValidArticle(all_articles[i]) =>
                  \A j \in DOMAIN RatedRecords :
                      Head5(RatedRecords[j]) # ArticleFields(all_articles[i])
        /\ IsSubseq([j \in DOMAIN RatedRecords |-> Head5(RatedRecords[j])],
                    [i \in DOMAIN all_articles |-> ArticleFields(all_articles[i])])

\* C3: when the run has written the rated dataset, every valid Article whose
\* analysis is absent has a record there with its five fields and six empty
\* analysis fields, whatever happened to the other Articles.
C3_AbsentAnalysisKept ==
    (pc = "done" /\ all_articles # <<>> /\ writable) =>
        \A i \in DOMAIN all_articles :
            (ValidArticle(all_articles[i]) /\ analysis_results[i] = None) =>
                (ArticleFields(all_articles[i]) \o <<"", "", "", "", "", "">>)
                    \in Range(RatedRecords)

\* C4: no failure of a stage ends the run: a run that has collected at least
\* one Article does not leave main before create_rated_csv.
C4_FailureContained ==
    all_articles # <<>> => pc # "exit"

\* C5: whenever analyze_with_fabric has been left, no temporary file made by
\* it exists.
C5_TransientFilesDeleted ==
    pc # "analyze" => tempFiles = {}

\* C9: for a success response, search_news returns one Article per result
\* item, stamped with today's date and the keyword, a lacking field empty.
C9_MalformedItemsKept ==
    (pc = "collect" /\ response.kind = "json" /\ response.status = "success") =>
        /\ Len(articles) = Len(response.results)
        /\ \A i \in DOMAIN articles :
              /\ articles[i].date = Today
              /\ articles[i].keyword = keywords[kwIdx]

\* The rows the valid Articles of arts give, in the order of arts.
ValidRows(arts) ==
    LET valid == SelectSeq(arts, ValidArticle)
    IN [i \in DOMAIN valid |-> ArticleFields(valid[i])]

\* The URLs selected from arts (those that are not empty), in the order of arts.
SelectedUrls(arts) ==
    LET HasUrl(a) == a.url # ""
        with == SelectSeq(arts, HasUrl)
    IN [i \in DOMAIN with |-> <<with[i].url>>]

\* The step is a call of op whose write went through.
WroteCall(op) == nCalls' = nCalls + 1 /\ lastCall'.op = op /\ writable'

C6_HeaderOnce ==
    csvFile.exists =>
        /\ csvFile.rows # <<>>
        /\ csvFile.rows[1] = CsvHeader
        /\ \A i \in 2..Len(csvFile.rows) : csvFile.rows[i] # CsvHeader

C6_AppendStep ==
    /\ IsPrefix(csvFile.rows, csvFile'.rows)
    /\ (csvFile.exists => csvFile'.exists)
    /\ WroteCall("save_to_csv") =>
          csvFile'.rows = (IF csvFile.exists THEN csvFile.rows ELSE <<CsvHeader>>)
                              \o ValidRows(lastCall'.articles)
    /\ ~WroteCall("save_to_csv") => csvFile' = csvFile

\* C6: starting without the destination, after any number of save_to_csv
\* calls the article dataset has the header once, as its first row, and each
\* call whose write goes through adds the rows of its valid Articles in input
\* order after the rows already there; no call removes, rewrites or reorders
\* a row (a call whose open fails leaves the dataset as it was).
C6_AppendOnly == [](C6_HeaderOnce) /\ [][C6_AppendStep]_vars

\* Two calls have written: the header, then two rows of each call.
C6_Witness ==
    /\ nCalls = 2
    /\ Len(csvFile.rows) = 5
    /\ lastCall.op = "save_to_csv"
    /\ csvFile.rows[2] # csvFile.rows[3]
    /\ SubSeq(csvFile.rows, 4, 5) = ValidRows(lastCall.articles)

C7_OverwriteStep ==
    /\ WroteCall("save_urls") =>
          /\ urlsFile'.exists
          /\ urlsFile'.rows = SelectedUrls(lastCall'.articles)
    /\ (WroteCall("save_urls") /\ writable /\ lastCall' = lastCall) =>
          urlsFile' = urlsFile
    /\ ~WroteCall("save_urls") => urlsFile' = urlsFile

\* C7: a save_urls call whose write goes through leaves in the URL list
\* exactly the URLs selected from its Articles, in input order, whatever the
\* list held before; the same call made again leaves the same content.
C7_SaveUrlsIdempotent == [][C7_OverwriteStep]_vars

\* save_urls was called twice with the same Articles, over prior content, and
\* the list holds the two selected URLs once each.
C7_Witness ==
    /\ repeated
    /\ lastCall.op = "save_urls"
    /\ Len(lastCall.articles) = 2
    /\ urlsFile.rows = << <<"http://u">>, <<"http://v">> >>

C8_NothingCollected ==
    /\ (pc = "done" /\ all_articles = <<>>) =>
          /\ artIdx = 0
          /\ analysis_results = <<>>
          /\ tempFiles = {}
          /\ kwIdx = IF keywords = <<>> THEN 0 ELSE Len(keywords) + 1
    /\ pc \in {"save_to_csv", "save_urls", "extract", "analyze", "create_rated_csv"} =>
          /\ all_articles # <<>>
          /\ kwIdx = Len(keywords) + 1

C8_SearchStep ==
    /\ all_articles' = <<>> => UNCHANGED <<csvFile, urlsFile, ratedFile, tempFiles>>
    /\ (pc = "collect" /\ kwIdx < Len(keywords)) => (pc' = "search_news" /\ kwIdx' = kwIdx + 1)
    /\ (pc = "search_news") => (pc' = "collect" /\ kwIdx' = kwIdx)

\* C8: a run that collects no Article (no keywords, or no keyword gives any)
\* ends without a persistence, extraction or analysis step and leaves the
\* three datasets as they were; a keyword whose search fails or is empty is
\* followed by the search of the next keyword.
C8_EarlyEnd == [](C8_NothingCollected) /\ [][C8_SearchStep]_vars

\* Two keywords were searched, none gave an Article, the datasets of the
\* earlier run are as they were.
C8_Witness ==
    /\ pc = "done"
    /\ Len(keywords) = 2
    /\ kwIdx = 3
    /\ all_articles = <<>>
    /\ csvFile = PriorCsv /\ urlsFile = PriorUrls /\ ratedFile = PriorRated
    /\ writable

C10_Aligned ==
    /\ pc = "extract" =>
          /\ artIdx \in 1..Len(all_articles)
          /\ Len(analysis_results) = artIdx - 1
    /\ pc = "analyze" =>
          /\ artIdx \in 1..Len(all_articles)
          /\ Len(analysis_results) = artIdx - 1
          /\ content.type = "content"
          /\ content.url = all_articles[artIdx].url
    /\ pc = "create_rated_csv" =>
          /\ Len(analysis_results) = Len(all_articles)
          /\ artIdx = Len(all_articles) + 1

C10_LoopStep ==
    /\ (pc = "extract") =>
          \/ pc' = "analyze" /\ artIdx' = artIdx /\ analysis_results' = analysis_results
          \/ /\ pc' \in {"extract", "create_rated_csv"}
             /\ artIdx' = artIdx + 1
             /\ analysis_results' = Append(analysis_results, None)
    /\ (pc = "analyze") =>
          \/ pc' = "exit" /\ analysis_results' = analysis_results
          \/ /\ pc' \in {"extract", "create_rated_csv"}
             /\ artIdx' = artIdx + 1
             /\ Len(analysis_results') = Len(analysis_results) + 1
             /\ SubSeq(analysis_results', 1, Len(analysis_results)) = analysis_results
    /\ (pc \notin {"extract", "analyze", "save_urls"}) =>
          analysis_results' = analysis_results
    /\ all_articles # <<>> /\ pc # "collect" => all_articles' = all_articles

\* C10: the per-article loop takes the Articles in list order, one extraction
\* attempt each; analyze_with_fabric runs only on the content extracted for the
\* same Article; each iteration appends one entry, None when extraction
\* failed; at create_rated_csv there is one entry per Article.
C10_PositionalPairing == [](C10_Aligned) /\ [][C10_LoopStep]_vars

\* Extraction failed for the first Article and the second was analysed.
C10_Witness ==
    /\ pc = "create_rated_csv"
    /\ Len(all_articles) = 2
    /\ analysis_results[1] = None
    /\ analysis_results[2].type = "dict"

====
